---- MODULE Spec2Model ----
(***************************************************************************)
(* Lobby and game session coordinator of the Think Fast: Math server.      *)
(* The model follows the socket handlers of the server's index.ts (the     *)
(* version with playerLobbyMap and activeTimers) and GameUtils.            *)
(*                                                                         *)
(* Node runs every handler and every interval callback to completion on    *)
(* one thread, so each handler is one action.                              *)
(*                                                                         *)
(* Left out of the records because no handler reads them: Player.name,     *)
(* Question.equation/operation, Settings.operations and the GameState      *)
(* fields currentQuestionIndex, comboCount, isComboActive and              *)
(* comboTimeRemaining (always 0 / false).                                  *)
(***************************************************************************)
EXTENDS Integers, Sequences, FiniteSets

(* ------------------------------ bounds -------------------------------- *)
(* Spec: one lobby code, rounds of one second, the bounds below.           *)
(* SpecWide: players lists of up to WidePlayers entries.  SpecTwoLobbies:  *)
(* two lobby codes.  SpecLongGame: rounds of up to MaxDuration seconds.    *)
(* SpecRestart: rounds of up to MaxDuration seconds and up to              *)
(* RestartTimers intervals, so that a game can be started again.           *)
(* SpecShortRestart: the same with rounds of one second.                   *)
(* SpecTicking: rounds of one or two seconds, so that handlers run between *)
(* the ticks of a round.                                                    *)

\* Most Player objects held by the store at once, over all lobbies (create and
\* join are not taken beyond it).
MaxPlayers == 2

\* Number of setInterval handles ever created in one behaviour.
MaxTimers == 1

\* Longest round of SpecLongGame and SpecRestart, in seconds.
MaxDuration == 2

\* Most Player objects held by the store at once in SpecWide.
WidePlayers == 3

\* Number of setInterval handles ever created in one behaviour of SpecRestart.
RestartTimers == 2


(* --------------------------- program constants ------------------------ *)

DefaultDuration == 120

DefaultQuestionCount == 10

\* timeTaken up to this many milliseconds keeps the combo.
FastAnswerMs == 10000

\* Size of the batch of SpecScoring: combos of up to this many answers.
ScoringQuestions == 22

(* ------------------------------ inputs -------------------------------- *)

\* The questionCount values clients send with update-settings; start-game is
\* explored for batches of these sizes.
QuestionCounts == {1}

\* The duration clients send with update-settings in the scopes whose rounds
\* last one second.
OneSecond == {1}

\* The durations clients send in SpecTicking: a round ends on its first or
\* on its second tick.
ShortRounds == {1, 2}

\* socket.id values of the sockets that connect.
Connections == {"s1", "s2"}

\* Values GameUtils.generateLobbyCode can return.
Codes == {"AAAA", "BBBB"}

OneCode == {"AAAA"}

NoCode == "none"

NoTimer == 0

\* Answers the question generator can produce (easy addition gives 2..18).
AnswerValues == {12}

\* submit-answer payloads sent by clients: right and fast, right and slow,
\* wrong, and a question id no batch has.
SubmitPayloads ==
    { [questionId |-> 1, answer |-> "12", timeTaken |-> FastAnswerMs],
      [questionId |-> 1, answer |-> "12", timeTaken |-> FastAnswerMs + 1],
      [questionId |-> 1, answer |-> "7", timeTaken |-> FastAnswerMs],
      [questionId |-> 2, answer |-> "12", timeTaken |-> FastAnswerMs] }

\* Partial<GameSettings> objects sent with update-settings.
NewSettingsInputs(durations) ==
    { [duration |-> d, questionCount |-> q] : d \in durations, q \in QuestionCounts }

(* ------------------------------ state --------------------------------- *)

VARIABLES
    conn,            \* socket.id -> "open" | "closed" (closed once disconnect fired)
    lobbies,         \* the Map lobbies, as its entries in insertion order
    playerLobbyMap,  \* socket.id -> lobby code, NoCode when absent
    activeTimers,    \* lobby code -> interval handle, NoTimer when absent
    timers,          \* every interval created: handle t is timers[t]
    cleared,         \* the handles clearInterval was called on
    lastOp,          \* the handler that ran last and the connection it ran for
    emitted          \* what that handler sent, in order

vars == <<conn, lobbies, playerLobbyMap, activeTimers, timers, cleared, lastOp, emitted>>

store == <<lobbies, playerLobbyMap, activeTimers, timers, cleared>>

(* ------------------------------ helpers ------------------------------- *)

Min(a, b) == IF a <= b THEN a ELSE b

Max(a, b) == IF a >= b THEN a ELSE b

\* Array.prototype.findIndex over the matching positions, 1-based: the first
\* of them, 0 when nothing matches.
FindIndex(matching) ==
    IF matching = {} THEN 0
    ELSE CHOOSE i \in matching : \A j \in matching : i <= j

\* Map.prototype.get on lobbies: the index of the entry under code k, or 0.
LobbyIndex(ls, k) == FindIndex({ i \in 1..Len(ls) : ls[i].code = k })

HasLobby(ls, k) == LobbyIndex(ls, k) # 0

GetLobby(ls, k) == ls[LobbyIndex(ls, k)]

\* Map.prototype.set: an existing key keeps its place, a new key goes last.
SetLobby(ls, k, lobby) ==
    IF HasLobby(ls, k)
    THEN [ls EXCEPT ![LobbyIndex(ls, k)] = lobby]
    ELSE Append(ls, lobby)

\* Map.prototype.delete.
DeleteLobby(ls, k) == SelectSeq(ls, LAMBDA l : l.code # k)

HasPlayer(lobby, c) == \E i \in 1..Len(lobby.players) : lobby.players[i].id = c

\* for (const [code, lobby] of lobbies.entries()) { if (some player has id) break }
FindLobbyOf(ls, c) == FindIndex({ i \in 1..Len(ls) : HasPlayer(ls[i], c) })

\* lobby.players.findIndex((p) => p.id === socket.id)
PlayerIndex(lobby, c) ==
    FindIndex({ i \in 1..Len(lobby.players) : lobby.players[i].id = c })

Digit(d) == CASE d = 0 -> "0" [] d = 1 -> "1" [] d = 2 -> "2" [] d = 3 -> "3"
              [] d = 4 -> "4" [] d = 5 -> "5" [] d = 6 -> "6" [] d = 7 -> "7"
              [] d = 8 -> "8" [] d = 9 -> "9"

RECURSIVE NatToString(_)
NatToString(n) == IF n < 10 THEN Digit(n) ELSE NatToString(n \div 10) \o Digit(n % 10)

\* Number.prototype.toString for an integer.
NumberToString(n) == IF n < 0 THEN "-" \o NatToString(-n) ELSE NatToString(n)

(* ------------------------------ events -------------------------------- *)

Ack(c, body) == [type |-> "ack", to |-> c, payload |-> body]

Broadcast(k, type, payload) == [type |-> type, to |-> k, payload |-> payload]

(* --------------------------- initial state ---------------------------- *)

Init ==
    /\ conn = [c \in Connections |-> "open"]
    /\ lobbies = <<>>
    /\ playerLobbyMap = [c \in Connections |-> NoCode]
    /\ activeTimers = [k \in Codes |-> NoTimer]
    /\ timers = <<>>
    /\ cleared = {}
    /\ lastOp = [op |-> "init"]
    /\ emitted = <<>>

\* Number of Player objects in the store.
RECURSIVE PlayerCount(_)
PlayerCount(ls) ==
    IF ls = <<>> THEN 0 ELSE Len(Head(ls).players) + PlayerCount(Tail(ls))

(* ---------------------------- create-lobby ---------------------------- *)

\* A host player that starts ready, as before the host had to toggle.
hostPlayer_StartsReady(c) ==
    [id |-> c, isHost |-> TRUE, isReady |-> TRUE, score |-> 0,
     comboCount |-> 0, answeredQuestionIds |-> <<>>]

hostPlayer(c) ==
    [id |-> c, isHost |-> TRUE, isReady |-> FALSE, score |-> 0,
     comboCount |-> 0, answeredQuestionIds |-> <<>>]

initialGameState ==
    [isActive |-> FALSE, isEnded |-> FALSE, questions |-> <<>>, timeRemaining |-> 0]

DefaultSettings ==
    [difficulty |-> "easy", duration |-> DefaultDuration,
     questionCount |-> DefaultQuestionCount]

newLobby(c, k) ==
    [code |-> k, players |-> <<hostPlayer(c)>>, settings |-> DefaultSettings,
     gameState |-> initialGameState, host |-> c, isGameActive |-> FALSE]

\* socket.on("create-lobby"); k is the value generateLobbyCode returned.
CreateLobby(c, k, maxPlayers) ==
    /\ conn[c] = "open"
    /\ PlayerCount(SetLobby(lobbies, k, newLobby(c, k))) <= maxPlayers
    /\ lobbies' = SetLobby(lobbies, k, newLobby(c, k))
    /\ playerLobbyMap' = [playerLobbyMap EXCEPT ![c] = k]
    /\ emitted' = <<Ack(c, [success |-> TRUE, lobby |-> newLobby(c, k)])>>
    /\ lastOp' = [op |-> "create-lobby", conn |-> c, code |-> k]
    /\ UNCHANGED <<conn, activeTimers, timers, cleared>>

(* ----------------------------- join-lobby ----------------------------- *)

newPlayer(c) ==
    [id |-> c, isHost |-> FALSE, isReady |-> FALSE, score |-> 0,
     comboCount |-> 0, answeredQuestionIds |-> <<>>]

\* A join that puts the new player first in the players list.
JoinUpdatedLobby_Prepends(lobby, c) ==
    [lobby EXCEPT !.players = <<newPlayer(c)>> \o lobby.players]

JoinUpdatedLobby(lobby, c) ==
    [lobby EXCEPT !.players = Append(lobby.players, newPlayer(c))]

\* socket.on("join-lobby").
\* join-lobby that opens a lobby under a code the store does not hold.
JoinLobby_CreatesMissing(c, k, maxPlayers) ==
    /\ conn[c] = "open"
    /\ lastOp' = [op |-> "join-lobby", conn |-> c, code |-> k]
    /\ LET updatedLobby == IF HasLobby(lobbies, k)
                           THEN JoinUpdatedLobby(GetLobby(lobbies, k), c)
                           ELSE newLobby(c, k)
       IN  /\ PlayerCount(SetLobby(lobbies, k, updatedLobby)) <= maxPlayers
           /\ lobbies' = SetLobby(lobbies, k, updatedLobby)
           /\ playerLobbyMap' = [playerLobbyMap EXCEPT ![c] = k]
           /\ emitted' = <<Ack(c, [success |-> TRUE, lobby |-> updatedLobby]),
                           Broadcast(k, "lobby-updated", updatedLobby)>>
           /\ UNCHANGED <<conn, activeTimers, timers, cleared>>

JoinLobby(c, k, maxPlayers) ==
    /\ conn[c] = "open"
    /\ lastOp' = [op |-> "join-lobby", conn |-> c, code |-> k]
    /\ IF ~HasLobby(lobbies, k)
       THEN /\ emitted' = <<Ack(c, [success |-> FALSE, error |-> "Lobby not found"])>>
            /\ UNCHANGED <<conn, store>>
       ELSE LET updatedLobby == JoinUpdatedLobby(GetLobby(lobbies, k), c) IN
            /\ PlayerCount(lobbies) < maxPlayers
            /\ lobbies' = SetLobby(lobbies, k, updatedLobby)
            /\ playerLobbyMap' = [playerLobbyMap EXCEPT ![c] = k]
            /\ emitted' = <<Ack(c, [success |-> TRUE, lobby |-> updatedLobby]),
                            Broadcast(k, "lobby-updated", updatedLobby)>>
            /\ UNCHANGED <<conn, activeTimers, timers, cleared>>

(* ---------------------------- toggle-ready ---------------------------- *)

\* A toggle that only ever sets the flag.
ToggleUpdatedLobby_SetsReady(lobby, c) ==
    [lobby EXCEPT !.players[PlayerIndex(lobby, c)].isReady = TRUE]

ToggleUpdatedLobby(lobby, c) ==
    [lobby EXCEPT !.players[PlayerIndex(lobby, c)].isReady = ~@]

\* socket.on("toggle-ready").
ToggleReady(c) ==
    /\ conn[c] = "open"
    /\ lastOp' = [op |-> "toggle-ready", conn |-> c]
    /\ IF FindLobbyOf(lobbies, c) = 0
       THEN /\ emitted' = <<Ack(c, [success |-> FALSE,
                                    error |-> "Player not found in any lobby"])>>
            /\ UNCHANGED <<conn, store>>
       ELSE LET i == FindLobbyOf(lobbies, c)
                playerLobby == ToggleUpdatedLobby(lobbies[i], c)
                player == playerLobby.players[PlayerIndex(playerLobby, c)]
            IN  /\ lobbies' = [lobbies EXCEPT ![i] = playerLobby]
                /\ emitted' = <<Ack(c, [success |-> TRUE, isReady |-> player.isReady]),
                                Broadcast(playerLobby.code, "lobby-updated", playerLobby)>>
                /\ UNCHANGED <<conn, playerLobbyMap, activeTimers, timers, cleared>>

(* ---------------------- leave-lobby / disconnect ---------------------- *)

\* A clearInterval that does not stop the interval.
ClearInterval_Ignored(ts, t) == ts

\* clearInterval(t): the handle never fires again.
ClearInterval(ts, t) == [ts EXCEPT ![t].live = FALSE]

\* lobby.players.filter((p) => p.id !== socketId)
LeaveUpdatedPlayers(lobby, c) == SelectSeq(lobby.players, LAMBDA p : p.id # c)

\* A handleLeaveLobby that hands a leaving host's role to the last remaining
\* player instead of the first.
LeaveUpdatedLobby_LastBecomesHost(lobby, c) ==
    LET updatedPlayers == LeaveUpdatedPlayers(lobby, c)
        wasHost == lobby.host = c
        newHostId == IF wasHost THEN updatedPlayers[Len(updatedPlayers)].id ELSE lobby.host
    IN  [lobby EXCEPT
            !.players = [index \in 1..Len(updatedPlayers) |->
                            [updatedPlayers[index] EXCEPT
                                !.isHost = \/ (wasHost /\ index = Len(updatedPlayers))
                                           \/ (~wasHost /\ updatedPlayers[index].id = newHostId)]],
            !.host = newHostId]

\* Case 2 of handleLeaveLobby: at least one player remains.
LeaveUpdatedLobby(lobby, c) ==
    LET updatedPlayers == LeaveUpdatedPlayers(lobby, c)
        wasHost == lobby.host = c
        newHostId == IF wasHost THEN updatedPlayers[1].id ELSE lobby.host
    IN  [lobby EXCEPT
            !.players = [index \in 1..Len(updatedPlayers) |->
                            [updatedPlayers[index] EXCEPT
                                !.isHost = \/ (wasHost /\ index = 1)
                                           \/ (~wasHost /\ updatedPlayers[index].id = newHostId)]],
            !.host = newHostId]

\* A handleLeaveLobby without Case 1: the emptied lobby stays in the Map.
LobbiesAfterLeave_KeepsEmpty(ls, lobbyCode, c) ==
    SetLobby(ls, lobbyCode,
             [GetLobby(ls, lobbyCode) EXCEPT
                 !.players = LeaveUpdatedPlayers(GetLobby(ls, lobbyCode), c)])

\* What handleLeaveLobby leaves in the Map: the lobby deleted when nobody
\* remains (Case 1), replaced otherwise (Case 2).
LobbiesAfterLeave(ls, lobbyCode, c) ==
    IF Len(LeaveUpdatedPlayers(GetLobby(ls, lobbyCode), c)) = 0
    THEN DeleteLobby(ls, lobbyCode)
    ELSE SetLobby(ls, lobbyCode, LeaveUpdatedLobby(GetLobby(ls, lobbyCode), c))

\* A handleLeaveLobby that deletes the emptied lobby without stopping its
\* interval.
handleLeaveLobby_KeepsTimer(c) ==
    LET lobbyCode == playerLobbyMap[c] IN
    IF lobbyCode = NoCode \/ ~HasLobby(lobbies, lobbyCode)
    THEN /\ emitted' = <<>>
         /\ UNCHANGED store
    ELSE LET lobby == GetLobby(lobbies, lobbyCode) IN
         /\ IF Len(LeaveUpdatedPlayers(lobby, c)) = 0
            THEN emitted' = <<>>
            ELSE emitted' = <<Broadcast(lobbyCode, "lobby-updated",
                                        LeaveUpdatedLobby(lobby, c))>>
         /\ UNCHANGED <<timers, cleared, activeTimers>>
         /\ lobbies' = LobbiesAfterLeave(lobbies, lobbyCode, c)
         /\ playerLobbyMap' = [playerLobbyMap EXCEPT ![c] = NoCode]

\* handleLeaveLobby(socketId): everything but the connection's own status.
handleLeaveLobby(c) ==
    LET lobbyCode == playerLobbyMap[c] IN
    IF lobbyCode = NoCode \/ ~HasLobby(lobbies, lobbyCode)
    THEN /\ emitted' = <<>>
         /\ UNCHANGED store
    ELSE LET lobby == GetLobby(lobbies, lobbyCode) IN
         /\ IF Len(LeaveUpdatedPlayers(lobby, c)) = 0
            THEN /\ IF activeTimers[lobbyCode] # NoTimer
                    THEN /\ timers' = ClearInterval(timers, activeTimers[lobbyCode])
                         /\ cleared' = cleared \cup {activeTimers[lobbyCode]}
                         /\ activeTimers' = [activeTimers EXCEPT ![lobbyCode] = NoTimer]
                    ELSE UNCHANGED <<timers, cleared, activeTimers>>
                 /\ emitted' = <<>>
            ELSE /\ emitted' = <<Broadcast(lobbyCode, "lobby-updated",
                                           LeaveUpdatedLobby(lobby, c))>>
                 /\ UNCHANGED <<timers, cleared, activeTimers>>
         /\ lobbies' = LobbiesAfterLeave(lobbies, lobbyCode, c)
         /\ playerLobbyMap' = [playerLobbyMap EXCEPT ![c] = NoCode]

\* socket.on("leave-lobby").
LeaveLobby(c) ==
    /\ conn[c] = "open"
    /\ lastOp' = [op |-> "leave-lobby", conn |-> c]
    /\ handleLeaveLobby(c)
    /\ UNCHANGED conn

\* socket.on("disconnect"): the id is never used again.
Disconnect(c) ==
    /\ conn[c] = "open"
    /\ conn' = [conn EXCEPT ![c] = "closed"]
    /\ lastOp' = [op |-> "disconnect", conn |-> c]
    /\ handleLeaveLobby(c)

(* --------------------------- update-settings -------------------------- *)

\* A merge that keeps only the supplied fields.
MergeSettings_Replaces(settings, newSettings) == newSettings

\* { ...playerLobby.settings, ...newSettings }
MergeSettings(settings, newSettings) ==
    [f \in DOMAIN settings \cup DOMAIN newSettings |->
        IF f \in DOMAIN newSettings THEN newSettings[f] ELSE settings[f]]

\* socket.on("update-settings").
UpdateSettings(c, newSettings) ==
    /\ conn[c] = "open"
    /\ lastOp' = [op |-> "update-settings", conn |-> c]
    /\ LET i == FindLobbyOf(lobbies, c) IN
       IF i = 0 \/ ~lobbies[i].players[PlayerIndex(lobbies[i], c)].isHost
       THEN /\ emitted' = <<>>
            /\ UNCHANGED <<conn, store>>
       ELSE LET playerLobby ==
                    [lobbies[i] EXCEPT
                        !.settings = MergeSettings(lobbies[i].settings, newSettings)]
            IN  /\ lobbies' = [lobbies EXCEPT ![i] = playerLobby]
                /\ emitted' = <<Broadcast(playerLobby.code, "lobby-updated", playerLobby)>>
                /\ UNCHANGED <<conn, playerLobbyMap, activeTimers, timers, cleared>>

(* ----------------------------- start-game ----------------------------- *)

\* GameUtils.generateQuestions: ids 1..questionCount, answers drawn at random.
GenerateQuestions(settings) ==
    { [i \in 1..settings.questionCount |-> [id |-> i, answer |-> a[i]]] :
        a \in [1..settings.questionCount -> AnswerValues] }

\* A new game state that keeps the timeRemaining of the state it replaces.
newGameState_KeepsTime(lobby, questions) ==
    [lobby.gameState EXCEPT
        !.isActive = TRUE,
        !.questions = questions,
        !.isEnded = FALSE]

newGameState(lobby, questions) ==
    [lobby.gameState EXCEPT
        !.isActive = TRUE,
        !.questions = questions,
        !.timeRemaining = lobby.settings.duration,
        !.isEnded = FALSE]

StartUpdatedLobby(lobby, questions) ==
    [lobby EXCEPT !.gameState = newGameState(lobby, questions), !.isGameActive = TRUE]

allPlayersReady(lobby) == \A j \in 1..Len(lobby.players) : lobby.players[j].isReady

\* The validation of start-game without the ready check.
StartAllowed_NoReadyCheck(ls, c) ==
    LET i == FindLobbyOf(ls, c) IN
    /\ i # 0
    /\ ls[i].host = c

\* The validation of start-game: in a lobby, the host, everyone ready.
StartAllowed(ls, c) ==
    LET i == FindLobbyOf(ls, c) IN
    /\ i # 0
    /\ ls[i].host = c
    /\ allPlayersReady(ls[i])

\* socket.on("start-game"); the interval it creates is the next handle.
StartGame(c, maxTimers, durations) ==
    /\ conn[c] = "open"
    /\ lastOp' = [op |-> "start-game", conn |-> c]
    /\ IF ~StartAllowed(lobbies, c)
       THEN /\ emitted' = <<>>
            /\ UNCHANGED <<conn, store>>
       ELSE LET i == FindLobbyOf(lobbies, c)
                lobbyToUpdate == lobbies[i]
                gameTimer == Len(timers) + 1
            IN  /\ Len(timers) < maxTimers
                /\ lobbyToUpdate.settings.duration \in durations
                /\ lobbyToUpdate.settings.questionCount \in QuestionCounts
                /\ \E questions \in GenerateQuestions(lobbyToUpdate.settings) :
                     LET updatedLobby == StartUpdatedLobby(lobbyToUpdate, questions) IN
                     /\ lobbies' = [lobbies EXCEPT ![i] = updatedLobby]
                     /\ emitted' = <<Broadcast(updatedLobby.code, "game-started",
                                               updatedLobby.gameState)>>
                /\ timers' = Append(timers, [code |-> lobbyToUpdate.code, live |-> TRUE])
                /\ activeTimers' = [activeTimers EXCEPT ![lobbyToUpdate.code] = gameTimer]
                /\ UNCHANGED <<conn, playerLobbyMap, cleared>>

(* ------------------------- the interval callback ---------------------- *)

\* Array.prototype.sort with (a, b) => b.score - a.score: stable, descending.
\* An insertion that puts a player before the players of equal score.
RECURSIVE InsertByScore_BeforeEqual(_, _)
InsertByScore_BeforeEqual(sorted, p) ==
    IF sorted = <<>> THEN <<p>>
    ELSE IF Head(sorted).score > p.score
         THEN <<Head(sorted)>> \o InsertByScore_BeforeEqual(Tail(sorted), p)
         ELSE <<p>> \o sorted

RECURSIVE InsertByScore(_, _)
InsertByScore(sorted, p) ==
    IF sorted = <<>> THEN <<p>>
    ELSE IF Head(sorted).score >= p.score
         THEN <<Head(sorted)>> \o InsertByScore(Tail(sorted), p)
         ELSE <<p>> \o sorted

RECURSIVE SortByScore(_)
SortByScore(players) ==
    IF players = <<>> THEN <<>>
    ELSE InsertByScore(SortByScore(SubSeq(players, 1, Len(players) - 1)),
                       players[Len(players)])

\* A tick that writes back the players as they were when the game started
\* (unanswered, score 0), as a callback holding on to the lobby object of
\* start-game would.
timerUpdatedLobby_StalePlayers(currentLobby) ==
    [currentLobby EXCEPT
        !.gameState.timeRemaining = @ - 1,
        !.players = [j \in 1..Len(currentLobby.players) |->
                        [currentLobby.players[j] EXCEPT
                            !.score = 0, !.comboCount = 0,
                            !.answeredQuestionIds = <<>>]]]

timerUpdatedLobby(currentLobby) ==
    [currentLobby EXCEPT !.gameState.timeRemaining = @ - 1]

\* The end of the game without the write of the lobby's isGameActive.
endedLobby_KeepsActiveFlag(lobby) ==
    [lobby EXCEPT
        !.gameState.isActive = FALSE,
        !.gameState.isEnded = TRUE,
        !.gameState.timeRemaining = 0]

endedLobby(lobby) ==
    [lobby EXCEPT
        !.gameState.isActive = FALSE,
        !.gameState.isEnded = TRUE,
        !.gameState.timeRemaining = 0,
        !.isGameActive = FALSE]

\* One firing of the setInterval callback of handle t.
Tick(t) ==
    /\ t \in 1..Len(timers)
    /\ timers[t].live
    /\ lastOp' = [op |-> "tick", timer |-> t]
    /\ LET k == timers[t].code IN
       IF ~HasLobby(lobbies, k)
       THEN /\ timers' = ClearInterval(timers, t)
            /\ cleared' = cleared \cup {t}
            /\ activeTimers' = [activeTimers EXCEPT ![k] = NoTimer]
            /\ emitted' = <<>>
            /\ UNCHANGED <<conn, lobbies, playerLobbyMap>>
       ELSE LET ticked == timerUpdatedLobby(GetLobby(lobbies, k))
                newTimeRemaining == ticked.gameState.timeRemaining
            IN  IF newTimeRemaining <= 0
                THEN /\ timers' = ClearInterval(timers, t)
                     /\ cleared' = cleared \cup {t}
                     /\ activeTimers' = [activeTimers EXCEPT ![k] = NoTimer]
                     /\ lobbies' = SetLobby(lobbies, k, endedLobby(ticked))
                     /\ emitted' = <<Broadcast(k, "timer-update", newTimeRemaining),
                                     Broadcast(k, "game-ended",
                                               SortByScore(endedLobby(ticked).players))>>
                     /\ UNCHANGED <<conn, playerLobbyMap>>
                ELSE /\ lobbies' = SetLobby(lobbies, k, ticked)
                     /\ emitted' = <<Broadcast(k, "timer-update", newTimeRemaining)>>
                     /\ UNCHANGED <<conn, playerLobbyMap, activeTimers, timers, cleared>>

(* ---------------------------- submit-answer --------------------------- *)

\* The combo multiplier without its cap at 2.0.
Multiplier100_Uncapped(comboLevel) == 100 + comboLevel * 5

\* Math.min(1.0 + comboLevel * 0.05, 2.0), in hundredths.
Multiplier100(comboLevel) == Min(100 + comboLevel * 5, 200)

\* Math.round(x / 100) for x >= 0: halves round up.
RoundHundredths(x) == (x + 50) \div 100

isCorrectAnswer(question, answer) == answer = NumberToString(question.answer)

newComboCount(comboCount, isCorrect, timeTaken) ==
    IF isCorrect /\ timeTaken <= FastAnswerMs THEN comboCount + 1 ELSE 0

scoreChange(comboCount, isCorrect, timeTaken) ==
    IF isCorrect /\ timeTaken <= FastAnswerMs
    THEN RoundHundredths(100 * Multiplier100(Max(0, (comboCount + 1) - 1)))
    ELSE IF isCorrect
         THEN 100
         ELSE -RoundHundredths(25 * Min(Multiplier100(Max(0, comboCount - 1)), 150))

\* The score update without the clamp at 0.
AppliedScore_Unclamped(score, change) == score + change

\* Math.max(0, originalPlayer.score + scoreChange)
AppliedScore(score, change) == Max(0, score + change)

\* A duplicate check that never finds the id.
AlreadyAnswered_Never(player, questionId) == FALSE

\* originalPlayer.answeredQuestionIds.includes(questionId)
AlreadyAnswered(player, questionId) ==
    \E j \in 1..Len(player.answeredQuestionIds) : player.answeredQuestionIds[j] = questionId

\* lobbyToUpdate.gameState.questions.find((q) => q.id === questionId), as an index.
QuestionIndex(lobby, questionId) ==
    FindIndex({ q \in 1..Len(lobby.gameState.questions) :
                    lobby.gameState.questions[q].id = questionId })

updatedPlayer(originalPlayer, question, answer, timeTaken) ==
    LET isCorrect == isCorrectAnswer(question, answer) IN
    [originalPlayer EXCEPT
        !.score = AppliedScore(originalPlayer.score,
                               scoreChange(originalPlayer.comboCount, isCorrect, timeTaken)),
        !.comboCount = newComboCount(originalPlayer.comboCount, isCorrect, timeTaken),
        !.answeredQuestionIds = Append(originalPlayer.answeredQuestionIds, question.id)]

\* The validation of submit-answer without the check that the game is active.
SubmitAllowed_NoActiveCheck(ls, c, questionId) ==
    LET i == FindLobbyOf(ls, c) IN
    /\ i # 0
    /\ QuestionIndex(ls[i], questionId) # 0
    /\ ~AlreadyAnswered(ls[i].players[PlayerIndex(ls[i], c)], questionId)

\* The validation of submit-answer without the duplicate check.
SubmitAllowed_NoDuplicateCheck(ls, c, questionId) ==
    LET i == FindLobbyOf(ls, c) IN
    /\ i # 0
    /\ ls[i].isGameActive
    /\ QuestionIndex(ls[i], questionId) # 0

\* The validation of submit-answer.
SubmitAllowed(ls, c, questionId) ==
    LET i == FindLobbyOf(ls, c) IN
    /\ i # 0
    /\ ls[i].isGameActive
    /\ QuestionIndex(ls[i], questionId) # 0
    /\ ~AlreadyAnswered(ls[i].players[PlayerIndex(ls[i], c)], questionId)

\* socket.on("submit-answer").
SubmitAnswer(c, questionId, answer, timeTaken) ==
    /\ conn[c] = "open"
    /\ lastOp' = [op |-> "submit-answer", conn |-> c, questionId |-> questionId]
    /\ IF ~SubmitAllowed(lobbies, c, questionId)
       THEN /\ emitted' = <<>>
            /\ UNCHANGED <<conn, store>>
       ELSE LET i == FindLobbyOf(lobbies, c)
                lobbyToUpdate == lobbies[i]
                playerIndex == PlayerIndex(lobbyToUpdate, c)
                question == lobbyToUpdate.gameState.questions[
                                QuestionIndex(lobbyToUpdate, questionId)]
                updatedLobby ==
                    [lobbyToUpdate EXCEPT
                        !.players[playerIndex] =
                            updatedPlayer(lobbyToUpdate.players[playerIndex],
                                          question, answer, timeTaken)]
            IN  /\ lobbies' = [lobbies EXCEPT ![i] = updatedLobby]
                /\ emitted' = <<Broadcast(updatedLobby.code, "lobby-updated", updatedLobby)>>
                /\ UNCHANGED <<conn, playerLobbyMap, activeTimers, timers, cleared>>

(* --------------------------- return-to-lobby -------------------------- *)

resetPlayers(players) ==
    [j \in 1..Len(players) |->
        [players[j] EXCEPT
            !.score = 0, !.isReady = FALSE, !.comboCount = 0,
            !.answeredQuestionIds = <<>>]]

resetGameState ==
    [isActive |-> FALSE, isEnded |-> FALSE, questions |-> <<>>, timeRemaining |-> 0]

\* The validation of return-to-lobby without the host check.
ReturnAllowed_NoHostCheck(ls, c) ==
    LET i == FindLobbyOf(ls, c) IN
    /\ i # 0
    /\ ls[i].gameState.isEnded

\* The validation of return-to-lobby without the check that the game ended.
ReturnAllowed_NoEndedCheck(ls, c) ==
    LET i == FindLobbyOf(ls, c) IN
    /\ i # 0
    /\ ls[i].host = c

\* The validation of return-to-lobby: in a lobby, the host, the game ended.
ReturnAllowed(ls, c) ==
    LET i == FindLobbyOf(ls, c) IN
    /\ i # 0
    /\ ls[i].host = c
    /\ ls[i].gameState.isEnded

\* socket.on("return-to-lobby").
ReturnToLobby(c) ==
    /\ conn[c] = "open"
    /\ lastOp' = [op |-> "return-to-lobby", conn |-> c]
    /\ IF ~ReturnAllowed(lobbies, c)
       THEN /\ emitted' = <<>>
            /\ UNCHANGED <<conn, store>>
       ELSE LET i == FindLobbyOf(lobbies, c)
                lobbyToUpdate == lobbies[i]
                k == lobbyToUpdate.code
                updatedLobby ==
                    [lobbyToUpdate EXCEPT
                        !.players = resetPlayers(lobbyToUpdate.players),
                        !.gameState = resetGameState,
                        !.isGameActive = FALSE]
            IN  /\ IF activeTimers[k] # NoTimer
                   THEN /\ timers' = ClearInterval(timers, activeTimers[k])
                        /\ cleared' = cleared \cup {activeTimers[k]}
                        /\ activeTimers' = [activeTimers EXCEPT ![k] = NoTimer]
                   ELSE UNCHANGED <<timers, cleared, activeTimers>>
                /\ lobbies' = [lobbies EXCEPT ![i] = updatedLobby]
                /\ emitted' = <<Broadcast(k, "lobby-updated", updatedLobby)>>
                /\ UNCHANGED <<conn, playerLobbyMap>>

(* --------------------------- specification ---------------------------- *)

\* Every handler, for lobby codes drawn from codes and within the given bounds.
Next(codes, maxPlayers, maxTimers, durations) ==
    \/ \E c \in Connections :
        \/ \E k \in codes : CreateLobby(c, k, maxPlayers)
        \/ \E k \in codes : JoinLobby(c, k, maxPlayers)
        \/ ToggleReady(c)
        \/ LeaveLobby(c)
        \/ Disconnect(c)
        \/ \E newSettings \in NewSettingsInputs(durations) :
             UpdateSettings(c, newSettings)
        \/ StartGame(c, maxTimers, durations)
        \/ \E payload \in SubmitPayloads :
             SubmitAnswer(c, payload.questionId, payload.answer, payload.timeTaken)
        \/ ReturnToLobby(c)
    \/ \E t \in 1..maxTimers : Tick(t)

Spec == Init /\ [][Next(OneCode, MaxPlayers, MaxTimers, OneSecond)]_vars

SpecWide == Init /\ [][Next(OneCode, WidePlayers, MaxTimers, OneSecond)]_vars

SpecRestart == Init /\ [][Next(OneCode, MaxPlayers, RestartTimers, 1..MaxDuration)]_vars

SpecShortRestart == Init /\ [][Next(OneCode, MaxPlayers, RestartTimers, OneSecond)]_vars

SpecTicking == Init /\ [][Next(OneCode, MaxPlayers, MaxTimers, ShortRounds)]_vars

SpecTwoLobbies == Init /\ [][Next(Codes, MaxPlayers, MaxTimers, OneSecond)]_vars

SpecLongGame == Init /\ [][Next(OneCode, MaxPlayers, MaxTimers, 1..MaxDuration)]_vars

\* SpecScoring: one player alone in a lobby has just started a game with a
\* batch of ScoringQuestions questions (create-lobby, toggle-ready,
\* update-settings and start-game have run) and answers the questions in the
\* order of the batch, each right or wrong, fast or slow.
ScoringAnswers ==
    { [answer |-> a, timeTaken |-> t] : a \in {"12", "7"},
                                         t \in {FastAnswerMs, FastAnswerMs + 1} }

ScoringLobby(c, k, questions) ==
    StartUpdatedLobby(
        ToggleUpdatedLobby(
            [newLobby(c, k) EXCEPT
                !.settings = MergeSettings(@, [questionCount |-> ScoringQuestions])],
            c),
        questions)

InitScoring ==
    \E questions \in GenerateQuestions([questionCount |-> ScoringQuestions]) :
        /\ conn = [c \in Connections |-> "open"]
        /\ lobbies = <<ScoringLobby("s1", "AAAA", questions)>>
        /\ playerLobbyMap = [c \in Connections |-> IF c = "s1" THEN "AAAA" ELSE NoCode]
        /\ activeTimers = [k \in Codes |-> IF k = "AAAA" THEN 1 ELSE NoTimer]
        /\ timers = <<[code |-> "AAAA", live |-> TRUE]>>
        /\ cleared = {}
        /\ lastOp = [op |-> "start-game", conn |-> "s1"]
        /\ emitted = <<Broadcast("AAAA", "game-started",
                                 ScoringLobby("s1", "AAAA", questions).gameState)>>

NextScoring ==
    \E payload \in ScoringAnswers :
        SubmitAnswer("s1",
                     Len(lobbies[1].players[1].answeredQuestionIds) + 1,
                     payload.answer, payload.timeTaken)

SpecScoring == InitScoring /\ [][NextScoring]_vars

\* SpecSettings: lobbies are created, joined, readied, started and timed
\* while the host sends update-settings with some of the fields only.
PartialSettingsInputs ==
    { [duration |-> 1],
      [questionCount |-> 1],
      [difficulty |-> "hard"],
      [duration |-> 1, questionCount |-> 1] }

NextSettings ==
    \/ \E c \in Connections :
        \/ \E k \in OneCode : CreateLobby(c, k, MaxPlayers)
        \/ \E k \in OneCode : JoinLobby(c, k, MaxPlayers)
        \/ ToggleReady(c)
        \/ \E newSettings \in PartialSettingsInputs : UpdateSettings(c, newSettings)
        \/ StartGame(c, MaxTimers, OneSecond)
    \/ \E t \in 1..MaxTimers : Tick(t)

SpecSettings == Init /\ [][NextSettings]_vars

(* ---------------------- games restarted without end ------------------- *)

\* start-game can succeed any number of times on a lobby, and every success
\* creates an interval.  An interval that start-game or an expiry has dropped
\* from activeTimers can no longer be cleared by a handler; all such intervals
\* of one code run the same callback.  To follow a host that restarts without
\* end in a finite state space, the specification below keeps them in one
\* entry of timers per code, marked shared when it stands for two or more of
\* them, and gives a new interval the place of a stopped one.

\* The entry of an interval just created for code k.
IntervalSlot(k) == [code |-> k, live |-> TRUE, shared |-> FALSE]

\* The running intervals of code k that activeTimers does not hold.
LeakedSlots(ts, registered, k) ==
    { t \in 1..Len(ts) : ts[t].live /\ ts[t].code = k /\ registered[k] # t }

\* The place of the next interval: that of a stopped interval, which nothing
\* refers to any more, or a new one.
FreeSlot(ts) ==
    LET stopped == FindIndex({ t \in 1..Len(ts) : ~ts[t].live })
    IN  IF stopped = 0 THEN Len(ts) + 1 ELSE stopped

PlaceInterval(ts, t, k) ==
    IF t <= Len(ts) THEN [ts EXCEPT ![t] = IntervalSlot(k)]
    ELSE Append(ts, IntervalSlot(k))

\* socket.on("start-game"), as often as it is emitted.  activeTimers.set
\* replaces the handle of an interval that is still running: that interval
\* runs on unregistered.  If the code already has unregistered intervals it
\* is counted with them and its place taken by the new interval; otherwise
\* it keeps its place and the new interval gets another.
StartGameRepeatable(c, durations) ==
    /\ conn[c] = "open"
    /\ lastOp' = [op |-> "start-game", conn |-> c]
    /\ IF ~StartAllowed(lobbies, c)
       THEN /\ emitted' = <<>>
            /\ UNCHANGED <<conn, store>>
       ELSE LET i == FindLobbyOf(lobbies, c)
                lobbyToUpdate == lobbies[i]
                k == lobbyToUpdate.code
                leaked == LeakedSlots(timers, activeTimers, k)
            IN  /\ lobbyToUpdate.settings.duration \in durations
                /\ lobbyToUpdate.settings.questionCount \in QuestionCounts
                /\ \E questions \in GenerateQuestions(lobbyToUpdate.settings) :
                     LET updatedLobby == StartUpdatedLobby(lobbyToUpdate, questions) IN
                     /\ lobbies' = [lobbies EXCEPT ![i] = updatedLobby]
                     /\ emitted' = <<Broadcast(updatedLobby.code, "game-started",
                                               updatedLobby.gameState)>>
                /\ IF activeTimers[k] # NoTimer /\ leaked # {}
                   THEN /\ timers' = [t \in 1..Len(timers) |->
                                        IF t \in leaked
                                        THEN [timers[t] EXCEPT !.shared = TRUE]
                                        ELSE timers[t]]
                        /\ UNCHANGED <<activeTimers, cleared>>
                   ELSE LET gameTimer == FreeSlot(timers) IN
                        /\ timers' = PlaceInterval(timers, gameTimer, k)
                        /\ activeTimers' = [activeTimers EXCEPT ![k] = gameTimer]
                        /\ cleared' = cleared \ {gameTimer}
                /\ UNCHANGED <<conn, playerLobbyMap>>

\* One firing of the callback of one of the intervals a shared entry stands
\* for.  Where the callback stops itself (the lobby is gone, or the countdown
\* has reached 0), clearInterval(gameTimer) stops that one interval and
\* activeTimers.delete(code) drops the registered interval of the code, if
\* any, which from then on is counted with the others of the entry; without
\* one, the entry is left with one interval or with more.
TickShared(t) ==
    /\ t \in 1..Len(timers)
    /\ timers[t].live
    /\ timers[t].shared
    /\ lastOp' = [op |-> "tick", timer |-> t]
    /\ LET k == timers[t].code
           stopsItself ==
               /\ activeTimers' = [activeTimers EXCEPT ![k] = NoTimer]
               /\ IF activeTimers[k] # NoTimer
                  THEN /\ timers' = ClearInterval(timers, activeTimers[k])
                       /\ cleared' = cleared \cup {activeTimers[k]}
                  ELSE /\ \E others \in BOOLEAN :
                            timers' = [timers EXCEPT ![t].shared = others]
                       /\ cleared' = cleared
       IN  IF ~HasLobby(lobbies, k)
           THEN /\ stopsItself
                /\ emitted' = <<>>
                /\ UNCHANGED <<conn, lobbies, playerLobbyMap>>
           ELSE LET ticked == timerUpdatedLobby(GetLobby(lobbies, k))
                    newTimeRemaining == ticked.gameState.timeRemaining
                IN  IF newTimeRemaining <= 0
                    THEN /\ stopsItself
                         /\ lobbies' = SetLobby(lobbies, k, endedLobby(ticked))
                         /\ emitted' = <<Broadcast(k, "timer-update", newTimeRemaining),
                                         Broadcast(k, "game-ended",
                                                   SortByScore(endedLobby(ticked).players))>>
                         /\ UNCHANGED <<conn, playerLobbyMap>>
                    ELSE /\ lobbies' = SetLobby(lobbies, k, ticked)
                         /\ emitted' = <<Broadcast(k, "timer-update", newTimeRemaining)>>
                         /\ UNCHANGED <<conn, playerLobbyMap, activeTimers, timers, cleared>>

\* One firing of an interval of entry t.
TickSlot(t) ==
    \/ /\ t \in 1..Len(timers)
       /\ ~timers[t].shared
       /\ Tick(t)
    \/ TickShared(t)

\* One registered interval and one entry of unregistered ones for each code.
IntervalSlots == 2 * Cardinality(OneCode)

\* Every handler, with start-game as often as the host emits it and rounds
\* of one and two seconds.
NextRound ==
    \/ \E c \in Connections :
        \/ \E k \in OneCode : CreateLobby(c, k, MaxPlayers)
        \/ \E k \in OneCode : JoinLobby(c, k, MaxPlayers)
        \/ ToggleReady(c)
        \/ LeaveLobby(c)
        \/ Disconnect(c)
        \/ \E newSettings \in NewSettingsInputs(ShortRounds) :
             UpdateSettings(c, newSettings)
        \/ StartGameRepeatable(c, ShortRounds)
        \/ \E payload \in SubmitPayloads :
             SubmitAnswer(c, payload.questionId, payload.answer, payload.timeTaken)
        \/ ReturnToLobby(c)
    \/ \E t \in 1..IntervalSlots : TickSlot(t)

\* setInterval(callback, 1000) runs the callback of every interval once a
\* second until clearInterval: an interval that keeps running fires again,
\* which is weak fairness of the tick of each entry.  Nothing obliges a
\* client to emit an event, and nothing keeps it from emitting one.
SpecFairTicks ==
    Init /\ [][NextRound]_vars /\ \A t \in 1..IntervalSlots : WF_vars(TickSlot(t))

(* ------------------------------ properties ---------------------------- *)

\* The positions of lobby's players list whose entry carries isHost.
HostEntries(lobby) == { j \in 1..Len(lobby.players) : lobby.players[j].isHost }

\* The positions of the Map whose lobby has an entry of connection c.
LobbiesOf(c) == { i \in 1..Len(lobbies) : HasPlayer(lobbies[i], c) }

\* C1: every stored lobby has exactly one players entry with isHost = TRUE,
\* and the id of that entry is the lobby's host field.
C1_ExactlyOneHost ==
    \A i \in 1..Len(lobbies) :
        /\ Cardinality(HostEntries(lobbies[i])) = 1
        /\ \A j \in HostEntries(lobbies[i]) : lobbies[i].players[j].id = lobbies[i].host

\* A step is a leave of connection c when it is the leave-lobby or the
\* disconnect handler of c.
IsLeaveOf(op, c) == op.op \in {"leave-lobby", "disconnect"} /\ op.conn = c

\* C2: when a connection leaves the lobby it is recorded in, or disconnects,
\* every stored lobby it leaves behind (on leave-lobby the recorded one, on
\* disconnect every lobby it is a player of) in which somebody remains is
\* stored without it: the remaining players keep their order (and everything
\* else of their entries); if it was the host, the lobby's host becomes the
\* first remaining player and that entry alone carries isHost; if it was not
\* the host, the host field does not change.
C2_HostSuccession ==
    [][\A c \in Connections : \A k \in Codes :
        LET lobby == GetLobby(lobbies, k)
            remaining == SelectSeq(lobby.players, LAMBDA p : p.id # c)
            after == GetLobby(lobbies', k)
        IN  (/\ IsLeaveOf(lastOp', c)
             /\ HasLobby(lobbies, k)
             /\ HasPlayer(lobby, c)
             /\ (lastOp'.op = "disconnect" \/ playerLobbyMap[c] = k)
             /\ remaining # <<>>)
            => /\ HasLobby(lobbies', k)
               /\ Len(after.players) = Len(remaining)
               /\ \A j \in 1..Len(remaining) : after.players[j].id = remaining[j].id
               /\ IF lobby.host = c
                  THEN /\ after.host = remaining[1].id
                       /\ \A j \in 1..Len(remaining) :
                            after.players[j] = [remaining[j] EXCEPT !.isHost = (j = 1)]
                  ELSE after.host = lobby.host]_vars

\* C3: every stored lobby has at least one player.
C3_NoEmptyLobby == \A i \in 1..Len(lobbies) : Len(lobbies[i].players) >= 1

\* C3, the case reached: the last player of a lobby whose game had been
\* started has left, and the lobby is gone from the Map with its timer.
C3_Witness ==
    /\ lastOp.op \in {"leave-lobby", "disconnect"}
    /\ emitted = <<>>
    /\ Len(timers) >= 1
    /\ ~HasLobby(lobbies, timers[1].code)
    /\ playerLobbyMap[lastOp.conn] = NoCode

\* C4: every connection id is a player of at most one stored lobby.
C4_AtMostOneLobby == \A c \in Connections : Cardinality(LobbiesOf(c)) <= 1

\* C5: playerLobbyMap maps connection c to code k exactly when a lobby is
\* stored under k and c is in its players list.
C5_ReverseIndexConsistent ==
    \A c \in Connections : \A k \in Codes :
        (playerLobbyMap[c] = k) <=> (HasLobby(lobbies, k) /\ HasPlayer(GetLobby(lobbies, k), c))

\* The intervals created for code k that clearInterval has not stopped.
RunningTimers(k) == { t \in 1..Len(timers) : timers[t].code = k /\ timers[t].live }

\* C6: for every lobby code, a running interval exists for the code exactly
\* when a lobby is stored under the code with gameState.isActive = TRUE.
C6_TimerIffActive ==
    \A k \in Codes :
        (RunningTimers(k) # {})
            <=> (HasLobby(lobbies, k) /\ GetLobby(lobbies, k).gameState.isActive)

\* The players entry submit-answer resolves for connection c: the first
\* entry with id c of the first lobby that has one.
SubmittingPlayer(ls, c) ==
    ls[FindLobbyOf(ls, c)].players[PlayerIndex(ls[FindLobbyOf(ls, c)], c)]

\* C8: a submit-answer whose questionId is already in the submitting
\* player's answeredQuestionIds changes nothing in the store (the player's
\* score, comboCount and answered ids included) and broadcasts nothing.
C8_DuplicateSubmitNoOp ==
    [][(/\ lastOp'.op = "submit-answer"
        /\ FindLobbyOf(lobbies, lastOp'.conn) # 0
        /\ AlreadyAnswered(SubmittingPlayer(lobbies, lastOp'.conn), lastOp'.questionId))
       => (UNCHANGED store /\ emitted' = <<>>)]_vars

\* C8, the case reached: a submit-answer that passed every other check (in
\* a lobby, game active, question in the batch) for an id the player had
\* already answered, and nothing was broadcast.
C8_Witness ==
    /\ lastOp.op = "submit-answer"
    /\ emitted = <<>>
    /\ FindLobbyOf(lobbies, lastOp.conn) # 0
    /\ lobbies[FindLobbyOf(lobbies, lastOp.conn)].isGameActive
    /\ QuestionIndex(lobbies[FindLobbyOf(lobbies, lastOp.conn)], lastOp.questionId) # 0
    /\ AlreadyAnswered(SubmittingPlayer(lobbies, lastOp.conn), lastOp.questionId)

\* Every score in a players list is at least 0.
ScoresNonNegative(players) == \A j \in 1..Len(players) : players[j].score >= 0

\* C9: every stored player's score is >= 0, and so is every score in a
\* lobby-updated or game-ended payload.
C9_ScoreNonNegative ==
    /\ \A i \in 1..Len(lobbies) : ScoresNonNegative(lobbies[i].players)
    /\ \A e \in 1..Len(emitted) :
        /\ emitted[e].type = "lobby-updated" => ScoresNonNegative(emitted[e].payload.players)
        /\ emitted[e].type = "game-ended" => ScoresNonNegative(emitted[e].payload)

\* C9, the case reached: a wrong answer was scored for a player whose score
\* was smaller than the penalty, and the stored and broadcast score is 0.
C9_Witness ==
    /\ lastOp.op = "submit-answer"
    /\ Len(emitted) = 1
    /\ emitted[1].type = "lobby-updated"
    /\ FindLobbyOf(lobbies, lastOp.conn) # 0
    /\ SubmittingPlayer(lobbies, lastOp.conn).answeredQuestionIds = <<lastOp.questionId>>
    /\ SubmittingPlayer(lobbies, lastOp.conn).comboCount = 0
    /\ SubmittingPlayer(lobbies, lastOp.conn).score = 0

\* The ids of the questions of a lobby's batch.
BatchIds(lobby) ==
    { lobby.gameState.questions[q].id : q \in 1..Len(lobby.gameState.questions) }

NoDuplicates(ids) == \A a, b \in 1..Len(ids) : ids[a] = ids[b] => a = b

\* C10: no player's answeredQuestionIds holds an id twice, and the only
\* change a submit-answer makes to one is to append an id of a question of
\* the lobby's batch.
C10_AnsweredIdsDistinctAndInBatch ==
    /\ [](\A i \in 1..Len(lobbies) : \A j \in 1..Len(lobbies[i].players) :
            NoDuplicates(lobbies[i].players[j].answeredQuestionIds))
    /\ [][lastOp'.op = "submit-answer" =>
            /\ Len(lobbies') = Len(lobbies)
            /\ \A i \in 1..Len(lobbies) :
                /\ Len(lobbies'[i].players) = Len(lobbies[i].players)
                /\ \A j \in 1..Len(lobbies[i].players) :
                    LET before == lobbies[i].players[j].answeredQuestionIds
                        after == lobbies'[i].players[j].answeredQuestionIds
                    IN  \/ after = before
                        \/ /\ after = Append(before, lastOp'.questionId)
                           /\ lastOp'.questionId \in BatchIds(lobbies[i])]_vars

\* C10, the case reached: a submit-answer has just been scored and its
\* questionId is in the player's answeredQuestionIds.
C10_Witness ==
    /\ lastOp.op = "submit-answer"
    /\ emitted # <<>>
    /\ FindLobbyOf(lobbies, lastOp.conn) # 0
    /\ AlreadyAnswered(SubmittingPlayer(lobbies, lastOp.conn), lastOp.questionId)
    /\ lastOp.questionId \in BatchIds(lobbies[FindLobbyOf(lobbies, lastOp.conn)])

\* The lobby the scanning handlers (toggle-ready, update-settings, start-game,
\* submit-answer, return-to-lobby) resolve for connection c: the first stored
\* lobby with an entry of c.
LobbyFoundFor(ls, c) == ls[FindLobbyOf(ls, c)]

\* C11: a start-game sent by the host of a lobby in which some player has
\* isReady = FALSE changes nothing in the store (gameState, isGameActive,
\* players, timers) and emits no game-started.
C11_StartWithUnreadyNoOp ==
    [][(/\ lastOp'.op = "start-game"
        /\ FindLobbyOf(lobbies, lastOp'.conn) # 0
        /\ LobbyFoundFor(lobbies, lastOp'.conn).host = lastOp'.conn
        /\ \E j \in 1..Len(LobbyFoundFor(lobbies, lastOp'.conn).players) :
              ~LobbyFoundFor(lobbies, lastOp'.conn).players[j].isReady)
       => (UNCHANGED store /\ emitted' = <<>>)]_vars

\* C11, the case reached: the host sent start-game for a lobby of two
\* players, itself ready and the other not, with settings a round can be
\* started with; the game is not active and nothing was emitted.
C11_Witness ==
    /\ lastOp.op = "start-game"
    /\ emitted = <<>>
    /\ FindLobbyOf(lobbies, lastOp.conn) # 0
    /\ LET lobby == LobbyFoundFor(lobbies, lastOp.conn) IN
       /\ lobby.host = lastOp.conn
       /\ Len(lobby.players) = 2
       /\ lobby.players[1].isReady
       /\ ~lobby.players[2].isReady
       /\ lobby.settings.duration \in OneSecond
       /\ lobby.settings.questionCount \in QuestionCounts
       /\ ~lobby.gameState.isActive
       /\ ~lobby.isGameActive
       /\ Len(timers) = 0

\* C12: update-settings, start-game and return-to-lobby sent by a connection
\* that is in a lobby without being its host leave the whole store (lobbies,
\* playerLobbyMap, timers) unchanged and emit nothing.
C12_NonHostNoOp ==
    [][(/\ lastOp'.op \in {"update-settings", "start-game", "return-to-lobby"}
        /\ FindLobbyOf(lobbies, lastOp'.conn) # 0
        /\ LobbyFoundFor(lobbies, lastOp'.conn).host # lastOp'.conn)
       => (UNCHANGED store /\ emitted' = <<>>)]_vars

\* C12, the case reached: a player that is not the host sent return-to-lobby
\* for a lobby whose game has ended, and nothing was reset or emitted.
C12_Witness ==
    /\ lastOp.op = "return-to-lobby"
    /\ emitted = <<>>
    /\ FindLobbyOf(lobbies, lastOp.conn) # 0
    /\ LET lobby == LobbyFoundFor(lobbies, lastOp.conn) IN
       /\ lobby.host # lastOp.conn
       /\ lobby.gameState.isEnded
       /\ \E j \in 1..Len(lobby.players) : lobby.players[j].isReady

\* C13: a round is the event sequence game-started, then one timer-update
\* per second counting timeRemaining down to 0, then one game-ended.  Step
\* by step: a successful start-game emits exactly game-started, with
\* timeRemaining = settings.duration; every callback that runs on a stored
\* lobby in which a round was started and not reset finds the round active
\* with timeRemaining = r >= 1 and emits timer-update(r - 1), followed by
\* game-ended exactly when r - 1 = 0, which leaves timeRemaining = 0,
\* isActive = FALSE, isEnded = TRUE and stops the interval; nothing else
\* emits timer-update or game-ended.
C13_RoundEventSequence ==
    [][/\ (lastOp'.op = "start-game" /\ emitted' # <<>>)
            => /\ Len(emitted') = 1
               /\ emitted'[1].type = "game-started"
               /\ emitted'[1].payload = GetLobby(lobbies', emitted'[1].to).gameState
               /\ emitted'[1].payload.isActive
               /\ emitted'[1].payload.timeRemaining
                    = GetLobby(lobbies', emitted'[1].to).settings.duration
       /\ (/\ lastOp'.op = "tick"
           /\ HasLobby(lobbies, timers[lastOp'.timer].code)
           /\ \/ GetLobby(lobbies, timers[lastOp'.timer].code).gameState.isActive
              \/ GetLobby(lobbies, timers[lastOp'.timer].code).gameState.isEnded)
            => LET k == timers[lastOp'.timer].code
                   before == GetLobby(lobbies, k).gameState
                   after == GetLobby(lobbies', k).gameState
               IN  /\ before.isActive
                   /\ before.timeRemaining >= 1
                   /\ emitted'[1] = Broadcast(k, "timer-update", before.timeRemaining - 1)
                   /\ IF before.timeRemaining = 1
                      THEN /\ Len(emitted') = 2
                           /\ emitted'[2].type = "game-ended"
                           /\ after.timeRemaining = 0
                           /\ ~after.isActive
                           /\ after.isEnded
                           /\ ~timers'[lastOp'.timer].live
                      ELSE /\ Len(emitted') = 1
                           /\ after.timeRemaining = before.timeRemaining - 1
                           /\ after.isActive
       /\ \A e \in 1..Len(emitted') :
            emitted'[e].type \in {"timer-update", "game-ended"} => lastOp'.op = "tick"]_vars

\* C14: a return-to-lobby sent by the host of a lobby whose gameState.isEnded
\* is FALSE (no game yet, or a game running) changes nothing in the store and
\* emits nothing.
C14_ReturnBeforeEndNoOp ==
    [][(/\ lastOp'.op = "return-to-lobby"
        /\ FindLobbyOf(lobbies, lastOp'.conn) # 0
        /\ LobbyFoundFor(lobbies, lastOp'.conn).host = lastOp'.conn
        /\ ~LobbyFoundFor(lobbies, lastOp'.conn).gameState.isEnded)
       => (UNCHANGED store /\ emitted' = <<>>)]_vars

\* C14, the case reached: the host sent return-to-lobby while the game was
\* running with a score on the board; the game still runs, its interval is
\* still registered and nothing was emitted.
C14_Witness ==
    /\ lastOp.op = "return-to-lobby"
    /\ emitted = <<>>
    /\ FindLobbyOf(lobbies, lastOp.conn) # 0
    /\ LET lobby == LobbyFoundFor(lobbies, lastOp.conn) IN
       /\ lobby.host = lastOp.conn
       /\ lobby.gameState.isActive
       /\ ~lobby.gameState.isEnded
       /\ activeTimers[lobby.code] # NoTimer
       /\ timers[activeTimers[lobby.code]].live
       /\ \E j \in 1..Len(lobby.players) : lobby.players[j].score > 0

\* What a successful return-to-lobby must leave of lobby before: every player
\* with score 0, isReady FALSE, comboCount 0 and no answered ids, in the same
\* order with the same id and isHost; host and settings as they were; an
\* inactive, not ended gameState without questions and with timeRemaining 0;
\* isGameActive FALSE.
IsResetOf(after, before) ==
    /\ Len(after.players) = Len(before.players)
    /\ \A j \in 1..Len(before.players) :
        /\ after.players[j].id = before.players[j].id
        /\ after.players[j].isHost = before.players[j].isHost
        /\ after.players[j].score = 0
        /\ ~after.players[j].isReady
        /\ after.players[j].comboCount = 0
        /\ after.players[j].answeredQuestionIds = <<>>
    /\ after.host = before.host
    /\ after.settings = before.settings
    /\ after.code = before.code
    /\ ~after.gameState.isActive
    /\ ~after.gameState.isEnded
    /\ after.gameState.questions = <<>>
    /\ after.gameState.timeRemaining = 0
    /\ ~after.isGameActive

\* C15: a return-to-lobby sent by the host of a lobby whose game has ended
\* leaves the lobby reset as above, broadcasts it, and leaves no interval
\* for the lobby: none registered in activeTimers and none running.
C15_ReturnResets ==
    [][(/\ lastOp'.op = "return-to-lobby"
        /\ FindLobbyOf(lobbies, lastOp'.conn) # 0
        /\ LobbyFoundFor(lobbies, lastOp'.conn).host = lastOp'.conn
        /\ LobbyFoundFor(lobbies, lastOp'.conn).gameState.isEnded)
       => LET before == LobbyFoundFor(lobbies, lastOp'.conn)
              after == LobbyFoundFor(lobbies', lastOp'.conn)
          IN  /\ FindLobbyOf(lobbies', lastOp'.conn) = FindLobbyOf(lobbies, lastOp'.conn)
              /\ IsResetOf(after, before)
              /\ emitted' = <<Broadcast(before.code, "lobby-updated", after)>>
              /\ activeTimers'[before.code] = NoTimer
              /\ \A t \in 1..Len(timers') : timers'[t].code = before.code => ~timers'[t].live]_vars

\* The claimed scoring rule, in points: the combo after the answer and the
\* change of the score, from the combo before it.
ReferenceCombo(c, correct, timeTaken) ==
    IF correct /\ timeTaken <= 10000 THEN c + 1 ELSE 0

ReferenceDelta(c, correct, timeTaken) ==
    IF correct /\ timeTaken <= 10000
    THEN 100 + 5 * Min(c, 20)
    ELSE IF correct
         THEN 100
         ELSE -((25 * Min(100 + 5 * Max(0, c - 1), 150) + 50) \div 100)

\* The question of the batch a submit-answer of connection c names.
SubmittedQuestion(ls, c, questionId) ==
    LobbyFoundFor(ls, c).gameState.questions[QuestionIndex(LobbyFoundFor(ls, c), questionId)]

\* C16: every accepted submit-answer leaves the submitting player with the
\* combo and the score of the reference rule: a correct answer within 10000
\* ms adds 100 + 5 * min(c, 20) and raises the combo c by one, a slower
\* correct answer adds 100 and resets the combo, a wrong answer subtracts
\* round(25 * min(1 + 0.05 * max(0, c - 1), 1.5)) and resets the combo, and
\* the score never goes below 0.
C16_ScoringReference ==
    [][(/\ lastOp'.op = "submit-answer"
        /\ SubmitAllowed(lobbies, lastOp'.conn, lastOp'.questionId))
       => LET before == SubmittingPlayer(lobbies, lastOp'.conn)
              after == SubmittingPlayer(lobbies', lastOp'.conn)
              question == SubmittedQuestion(lobbies, lastOp'.conn, lastOp'.questionId)
          IN  \A payload \in ScoringAnswers :
                after = updatedPlayer(before, question, payload.answer, payload.timeTaken)
                => LET correct == isCorrectAnswer(question, payload.answer) IN
                   /\ after.comboCount =
                          ReferenceCombo(before.comboCount, correct, payload.timeTaken)
                   /\ after.score =
                          Max(0, before.score
                                 + ReferenceDelta(before.comboCount, correct,
                                                  payload.timeTaken))]_vars

\* C16, the case reached: two fast correct answers and a wrong one, from a
\* score of 0 and a combo of 0, give (100, 1), (205, 2) and (179, 0).
C16_Witness ==
    /\ lastOp.op = "submit-answer"
    /\ Len(lobbies) = 1
    /\ lobbies[1].players[1].answeredQuestionIds = <<1, 2, 3>>
    /\ lobbies[1].players[1].score = 179
    /\ lobbies[1].players[1].comboCount = 0

\* C17: while a lobby's game stays active, its timeRemaining never goes up:
\* in every step that leaves the lobby stored under a code active before
\* and after, the new timeRemaining is at most the old one.
C17_TimeRemainingNonIncreasing ==
    [][\A k \in Codes :
        (/\ HasLobby(lobbies, k) /\ HasLobby(lobbies', k)
         /\ GetLobby(lobbies, k).gameState.isActive
         /\ GetLobby(lobbies', k).gameState.isActive)
        => GetLobby(lobbies', k).gameState.timeRemaining
               <= GetLobby(lobbies, k).gameState.timeRemaining]_vars

\* C18: in every reachable state every stored lobby's isGameActive equals
\* its gameState.isActive.
C18_ActiveFlagMirrors ==
    \A i \in 1..Len(lobbies) : lobbies[i].isGameActive = lobbies[i].gameState.isActive

\* C18, the cases reached: a lobby whose game was started and is running
\* (both flags true), and a lobby whose timer has ended the game (both false).
C18_Witness ==
    /\ lastOp.op = "tick"
    /\ Len(lobbies) = 1
    /\ lobbies[1].gameState.isEnded
    /\ ~lobbies[1].isGameActive
    /\ ~lobbies[1].gameState.isActive

\* A step answered the caller with success=false and sent nothing else.
RefusedOnly(events, c) ==
    /\ Len(events) = 1
    /\ events[1].type = "ack"
    /\ events[1].to = c
    /\ events[1].payload.success = FALSE

\* C19: a join-lobby whose code has no lobby in the store, and a
\* toggle-ready from a connection that is in no lobby, answer the caller
\* with success=false and leave the lobbies, the reverse index and the
\* timers unchanged, with no broadcast to any room.
C19_FailedJoinAndToggleNoOp ==
    [][(\/ /\ lastOp'.op = "join-lobby"
           /\ ~HasLobby(lobbies, lastOp'.code)
        \/ /\ lastOp'.op = "toggle-ready"
           /\ FindLobbyOf(lobbies, lastOp'.conn) = 0)
       => (UNCHANGED store /\ RefusedOnly(emitted', lastOp'.conn))]_vars

\* C19, the case reached: a join-lobby for a code without a lobby: the
\* caller was refused and is still in no lobby.
C19_Witness ==
    /\ lastOp.op = "join-lobby"
    /\ ~HasLobby(lobbies, lastOp.code)
    /\ RefusedOnly(emitted, lastOp.conn)
    /\ playerLobbyMap[lastOp.conn] = NoCode

\* The score of the first entry with id c in a lobby's players.
ScoreOf(lobby, c) == lobby.players[PlayerIndex(lobby, c)].score

\* C20: a submit-answer whose caller's lobby has isGameActive=false, or
\* whose question id is not the id of a question of the current batch,
\* changes nothing in the store (no score, combo or answered ids of any
\* player) and broadcasts nothing; and no step other than a successful
\* start-game or return-to-lobby changes the score of a player of a lobby
\* whose game has ended. (A player entry that a create-lobby has just made
\* for its caller is a new player, as after a leave and a join.)
C20_InactiveOrUnknownSubmitNoOp ==
    [][/\ (/\ lastOp'.op = "submit-answer"
           /\ FindLobbyOf(lobbies, lastOp'.conn) # 0
           /\ \/ ~LobbyFoundFor(lobbies, lastOp'.conn).isGameActive
              \/ QuestionIndex(LobbyFoundFor(lobbies, lastOp'.conn),
                               lastOp'.questionId) = 0)
          => (UNCHANGED store /\ emitted' = <<>>)
       /\ \A k \in Codes :
            (/\ HasLobby(lobbies, k) /\ HasLobby(lobbies', k)
             /\ GetLobby(lobbies, k).gameState.isEnded
             /\ ~(lastOp'.op = "start-game" /\ StartAllowed(lobbies, lastOp'.conn))
             /\ ~(lastOp'.op = "return-to-lobby" /\ ReturnAllowed(lobbies, lastOp'.conn)))
            => \A c \in Connections :
                 (/\ HasPlayer(GetLobby(lobbies, k), c)
                  /\ HasPlayer(GetLobby(lobbies', k), c)
                  /\ ~(lastOp'.op = "create-lobby" /\ lastOp'.conn = c))
                 => ScoreOf(GetLobby(lobbies', k), c) = ScoreOf(GetLobby(lobbies, k), c)]_vars

\* C20, the case reached: after the timer ended a game, the caller
\* submitted an answer to a question of the batch it had not answered, and
\* nothing was broadcast.
C20_Witness ==
    /\ lastOp.op = "submit-answer"
    /\ FindLobbyOf(lobbies, lastOp.conn) # 0
    /\ LobbyFoundFor(lobbies, lastOp.conn).gameState.isEnded
    /\ ~LobbyFoundFor(lobbies, lastOp.conn).isGameActive
    /\ QuestionIndex(LobbyFoundFor(lobbies, lastOp.conn), lastOp.questionId) # 0
    /\ ~AlreadyAnswered(SubmittingPlayer(lobbies, lastOp.conn), lastOp.questionId)
    /\ emitted = <<>>

\* C21: a create-lobby stores under the generated code a lobby whose
\* players list is exactly the creator, with isHost=true, isReady=false and
\* score 0, whose host is the creator's id, whose isGameActive is false and
\* whose gameState is inactive, not ended and without questions; it records
\* the creator under the code in the reverse index, acknowledges the creator
\* only and broadcasts no lobby-updated.
C21_CreateStoresFreshLobby ==
    [][lastOp'.op = "create-lobby"
       => LET c == lastOp'.conn
              k == lastOp'.code
              lobby == GetLobby(lobbies', k)
          IN  /\ HasLobby(lobbies', k)
              /\ Len(lobby.players) = 1
              /\ lobby.players[1].id = c
              /\ lobby.players[1].isHost
              /\ ~lobby.players[1].isReady
              /\ lobby.players[1].score = 0
              /\ lobby.host = c
              /\ ~lobby.isGameActive
              /\ ~lobby.gameState.isActive
              /\ ~lobby.gameState.isEnded
              /\ lobby.gameState.questions = <<>>
              /\ playerLobbyMap'[c] = k
              /\ Len(emitted') = 1
              /\ emitted'[1].type = "ack"
              /\ emitted'[1].to = c
              /\ emitted'[1].payload.success
              /\ emitted'[1].payload.lobby = lobby]_vars

\* C21, the case reached: a create-lobby has run: the lobby stored under
\* its code holds the creator alone and only the creator was answered.
C21_Witness ==
    /\ lastOp.op = "create-lobby"
    /\ HasLobby(lobbies, lastOp.code)
    /\ GetLobby(lobbies, lastOp.code).players = <<hostPlayer(lastOp.conn)>>
    /\ playerLobbyMap[lastOp.conn] = lastOp.code
    /\ Len(emitted) = 1
    /\ emitted[1].to = lastOp.conn

\* C22: a join-lobby for a code that has a lobby appends exactly one new
\* player with isHost=false, isReady=false and score 0 at the end of the
\* lobby's players list; the players already there (fields and order), the
\* host, the settings, the gameState and the timers are unchanged, whether
\* or not a game is active; the joiner is acknowledged and lobby-updated is
\* broadcast with the updated lobby.
C22_JoinAppendsOnePlayer ==
    [][(lastOp'.op = "join-lobby" /\ HasLobby(lobbies, lastOp'.code))
       => LET c == lastOp'.conn
              k == lastOp'.code
              before == GetLobby(lobbies, k)
              after == GetLobby(lobbies', k)
              n == Len(before.players)
          IN  /\ HasLobby(lobbies', k)
              /\ Len(after.players) = n + 1
              /\ SubSeq(after.players, 1, n) = before.players
              /\ after.players[n + 1].id = c
              /\ ~after.players[n + 1].isHost
              /\ ~after.players[n + 1].isReady
              /\ after.players[n + 1].score = 0
              /\ after.host = before.host
              /\ after.settings = before.settings
              /\ after.gameState = before.gameState
              /\ after.isGameActive = before.isGameActive
              /\ UNCHANGED <<activeTimers, timers, cleared>>
              /\ emitted' = <<Ack(c, [success |-> TRUE, lobby |-> after]),
                              Broadcast(k, "lobby-updated", after)>>]_vars

\* C22, the case reached: a connection has joined a lobby whose game is
\* running, and the lobby now has the host first and the joiner second.
C22_Witness ==
    /\ lastOp.op = "join-lobby"
    /\ HasLobby(lobbies, lastOp.code)
    /\ GetLobby(lobbies, lastOp.code).gameState.isActive
    /\ Len(GetLobby(lobbies, lastOp.code).players) = 2
    /\ GetLobby(lobbies, lastOp.code).players[1].isHost
    /\ GetLobby(lobbies, lastOp.code).players[2].id = lastOp.conn
    /\ Len(emitted) = 2

\* C23: a start-game by the host of a lobby whose players are all ready
\* replaces the lobby's gameState by one with isActive=true, isEnded=false,
\* timeRemaining equal to the settings' duration and the generated batch as
\* questions, sets isGameActive=true and registers a new interval for the
\* lobby's code; the players list, the host and the settings are unchanged.
\* The game-started it emits carries the gameState already stored, and it is
\* the only event of the step: the interval created by the step has not
\* fired, and every tick is of an interval an earlier step created.
C23_StartGameEffect ==
    [][/\ (lastOp'.op = "start-game" /\ StartAllowed(lobbies, lastOp'.conn))
          => LET before == LobbyFoundFor(lobbies, lastOp'.conn)
                 k == before.code
                 after == GetLobby(lobbies', k)
             IN  /\ HasLobby(lobbies', k)
                 /\ after.gameState.isActive
                 /\ ~after.gameState.isEnded
                 /\ after.gameState.timeRemaining = before.settings.duration
                 /\ after.gameState.questions \in GenerateQuestions(before.settings)
                 /\ after.isGameActive
                 /\ after.players = before.players
                 /\ after.host = before.host
                 /\ after.settings = before.settings
                 /\ Len(timers') = Len(timers) + 1
                 /\ activeTimers'[k] = Len(timers')
                 /\ timers'[Len(timers')] = [code |-> k, live |-> TRUE]
                 /\ emitted' = <<Broadcast(k, "game-started", after.gameState)>>
       /\ lastOp'.op = "tick" => lastOp'.timer \in 1..Len(timers)]_vars

\* C23, the case reached: the host has started a game in a lobby of two
\* ready players, and game-started went out with the stored gameState.
C23_Witness ==
    /\ lastOp.op = "start-game"
    /\ Len(emitted) = 1
    /\ emitted[1].type = "game-started"
    /\ HasLobby(lobbies, emitted[1].to)
    /\ GetLobby(lobbies, emitted[1].to).gameState = emitted[1].payload
    /\ Len(GetLobby(lobbies, emitted[1].to).players) = 2
    /\ activeTimers[emitted[1].to] # NoTimer

\* The one-to-one maps of positions 1..n onto themselves.
PositionMaps(n) == { f \in [1..n -> 1..n] : \A i, j \in 1..n : i # j => f[i] # f[j] }

\* sorted lists the entries of players by non-increasing score, entries of
\* equal score in the order they have in players.
IsStableRanking(sorted, players) ==
    /\ Len(sorted) = Len(players)
    /\ \E f \in PositionMaps(Len(players)) :
          /\ \A i \in 1..Len(players) : sorted[i] = players[f[i]]
          /\ \A i, j \in 1..Len(players) :
                i < j => \/ sorted[i].score > sorted[j].score
                         \/ sorted[i].score = sorted[j].score /\ f[i] < f[j]

\* C24: the game-ended payload emitted at expiry is a permutation of the
\* lobby's players at that moment, ordered by non-increasing score with
\* players of equal score in their players-list order; the stored players
\* list keeps its order.
C24_FinalScoresStableRanking ==
    [][(/\ lastOp'.op = "tick"
        /\ Len(emitted') = 2
        /\ emitted'[2].type = "game-ended")
       => LET k == emitted'[2].to IN
          /\ HasLobby(lobbies, k) /\ HasLobby(lobbies', k)
          /\ IsStableRanking(emitted'[2].payload, GetLobby(lobbies, k).players)
          /\ GetLobby(lobbies', k).players = GetLobby(lobbies, k).players]_vars

\* C24, the case reached: a game ended in a lobby of three entries where
\* the second has the highest score and the other two, different entries,
\* are level: game-ended lists the second, the first, then the third, and
\* the store keeps the join order.
C24_Witness ==
    /\ lastOp.op = "tick"
    /\ Len(emitted) = 2
    /\ emitted[2].type = "game-ended"
    /\ HasLobby(lobbies, emitted[2].to)
    /\ LET players == GetLobby(lobbies, emitted[2].to).players IN
       /\ Len(players) = 3
       /\ players[1].score < players[2].score
       /\ players[1].score = players[3].score
       /\ players[1] # players[3]
       /\ emitted[2].payload = <<players[2], players[1], players[3]>>

\* C25: when a leave or disconnect removes the last player of a lobby whose
\* game is active, the step deletes the lobby and clears the interval
\* registered for its code, so that afterwards activeTimers has no entry for
\* the code; and a tick that finds no lobby under its code changes neither
\* the lobbies, the reverse index nor activeTimers and emits neither
\* timer-update nor game-ended.
C25_LastLeaveStopsTimer ==
    [][/\ \A c \in Connections :
            LET k == playerLobbyMap[c] IN
            (/\ IsLeaveOf(lastOp', c)
             /\ k # NoCode
             /\ HasLobby(lobbies, k)
             /\ LeaveUpdatedPlayers(GetLobby(lobbies, k), c) = <<>>
             /\ GetLobby(lobbies, k).gameState.isActive)
            => /\ ~HasLobby(lobbies', k)
               /\ activeTimers'[k] = NoTimer
               /\ activeTimers[k] # NoTimer
                    => /\ ~timers'[activeTimers[k]].live
                       /\ activeTimers[k] \in cleared'
       /\ (/\ lastOp'.op = "tick"
           /\ ~HasLobby(lobbies, timers[lastOp'.timer].code))
          => /\ UNCHANGED <<lobbies, playerLobbyMap, activeTimers>>
             /\ emitted' = <<>>]_vars

\* C25, the case reached: an interval has fired for a code under which no
\* lobby is stored any more (its last player left), found nothing, emitted
\* nothing and stopped itself.
C25_Witness ==
    /\ lastOp.op = "tick"
    /\ ~HasLobby(lobbies, timers[lastOp.timer].code)
    /\ ~timers[lastOp.timer].live
    /\ activeTimers[timers[lastOp.timer].code] = NoTimer
    /\ emitted = <<>>

\* C26: an update-settings by the host sets every top-level settings field
\* the payload supplies to the supplied value and leaves every field it does
\* not supply unchanged; the players, the host, the gameState (with the
\* timeRemaining and the questions of a running game), isGameActive and the
\* timers are unchanged.
C26_UpdateSettingsMerges ==
    [][lastOp'.op = "update-settings" =>
        \A newSettings \in PartialSettingsInputs \cup NewSettingsInputs(OneSecond) :
          LET c == lastOp'.conn
              i == FindLobbyOf(lobbies, c)
              before == lobbies[i]
              after == lobbies'[i]
          IN  (/\ i # 0
               /\ before.players[PlayerIndex(before, c)].isHost
               /\ UpdateSettings(c, newSettings))
              => /\ Len(lobbies') = Len(lobbies)
                 /\ DOMAIN after.settings = DOMAIN before.settings \cup DOMAIN newSettings
                 /\ \A f \in DOMAIN newSettings : after.settings[f] = newSettings[f]
                 /\ \A f \in DOMAIN before.settings \ DOMAIN newSettings :
                        after.settings[f] = before.settings[f]
                 /\ after.players = before.players
                 /\ after.host = before.host
                 /\ after.gameState = before.gameState
                 /\ after.isGameActive = before.isGameActive
                 /\ after.code = before.code
                 /\ \A j \in 1..Len(lobbies) : j # i => lobbies'[j] = lobbies[j]
                 /\ UNCHANGED <<playerLobbyMap, activeTimers, timers, cleared>>]_vars

\* C26, the case reached: during a running game the host has sent only a
\* difficulty: the settings keep the duration and the questionCount set
\* before, and the running game keeps its questions and its timeRemaining.
C26_Witness ==
    /\ lastOp.op = "update-settings"
    /\ Len(emitted) = 1
    /\ Len(lobbies) = 1
    /\ lobbies[1].settings = [difficulty |-> "hard", duration |-> 1, questionCount |-> 1]
    /\ lobbies[1].gameState.isActive
    /\ lobbies[1].gameState.timeRemaining = 1
    /\ Len(lobbies[1].gameState.questions) = 1

\* C27: a toggle-ready by a connection that is in exactly one lobby flips
\* the isReady of that connection's player and changes nothing else in the
\* store (the other players, the host, the settings, the gameState, the
\* other lobbies, the reverse index, the timers); the acknowledgment carries
\* the new isReady; and a second toggle-ready by the same connection right
\* after would store the lobby as it was before the first.
C27_ToggleFlipsOnlyReady ==
    [][(/\ lastOp'.op = "toggle-ready"
        /\ Cardinality(LobbiesOf(lastOp'.conn)) = 1)
       => LET c == lastOp'.conn
              i == FindLobbyOf(lobbies, c)
              before == lobbies[i]
              after == lobbies'[i]
              p == PlayerIndex(before, c)
          IN  /\ Len(lobbies') = Len(lobbies)
              /\ \A j \in 1..Len(lobbies) : j # i => lobbies'[j] = lobbies[j]
              /\ Len(after.players) = Len(before.players)
              /\ \A j \in 1..Len(before.players) :
                    j # p => after.players[j] = before.players[j]
              /\ after.players[p].isReady = ~before.players[p].isReady
              /\ [after.players[p] EXCEPT !.isReady = ~@] = before.players[p]
              /\ [after EXCEPT !.players = before.players] = before
              /\ UNCHANGED <<playerLobbyMap, activeTimers, timers, cleared>>
              /\ emitted'[1] = Ack(c, [success |-> TRUE,
                                       isReady |-> after.players[p].isReady])
              /\ [lobbies' EXCEPT ![i] = ToggleUpdatedLobby(after, c)] = lobbies]_vars

\* C27, the case reached: a player who was ready has toggled again in a
\* lobby of two during a running game: the player is unready, the other
\* player is still ready, and the acknowledgment says isReady=false.
C27_Witness ==
    /\ lastOp.op = "toggle-ready"
    /\ Len(emitted) = 2
    /\ emitted[1].payload.success
    /\ ~emitted[1].payload.isReady
    /\ Len(lobbies) = 1
    /\ lobbies[1].gameState.isActive
    /\ Len(lobbies[1].players) = 2
    /\ \E j \in 1..2 : /\ lobbies[1].players[j].id = lastOp.conn
                        /\ ~lobbies[1].players[j].isReady
                        /\ lobbies[1].players[3 - j].isReady
                        /\ lobbies[1].players[3 - j].id # lastOp.conn

\* C28: a tick that finds its lobby changes only the lobby's
\* gameState.timeRemaining, which it lowers by one, and, when that reaches 0
\* or less, isActive, isEnded and isGameActive (with timeRemaining stored as
\* 0): the players list with every score, combo, ready flag and answered
\* list, the host and the settings, as the handlers that ran since the last
\* tick left them, are the same after the tick, and so are the questions,
\* the other lobbies and the reverse index.
C28_TickPreservesLobby ==
    [][(/\ lastOp'.op = "tick"
        /\ HasLobby(lobbies, timers[lastOp'.timer].code))
       => LET k == timers[lastOp'.timer].code
              before == GetLobby(lobbies, k)
              after == GetLobby(lobbies', k)
              expired == before.gameState.timeRemaining - 1 <= 0
          IN  /\ HasLobby(lobbies', k)
              /\ Len(lobbies') = Len(lobbies)
              /\ \A j \in 1..Len(lobbies) : lobbies[j].code # k => lobbies'[j] = lobbies[j]
              /\ after.players = before.players
              /\ after.host = before.host
              /\ after.settings = before.settings
              /\ after.code = before.code
              /\ after.gameState.questions = before.gameState.questions
              /\ IF expired
                 THEN /\ after.gameState.timeRemaining = 0
                      /\ ~after.gameState.isActive
                      /\ after.gameState.isEnded
                      /\ ~after.isGameActive
                 ELSE /\ after.gameState.timeRemaining = before.gameState.timeRemaining - 1
                      /\ after.gameState.isActive = before.gameState.isActive
                      /\ after.gameState.isEnded = before.gameState.isEnded
                      /\ after.isGameActive = before.isGameActive
              /\ UNCHANGED playerLobbyMap]_vars

\* C28, the case reached: a tick that did not end the game ran after a
\* player had scored and a second player had joined and readied since the
\* game started: the score, the answered list, the second player and the
\* ready flags are all in the stored lobby after the tick.
C28_Witness ==
    /\ lastOp.op = "tick"
    /\ Len(emitted) = 1
    /\ emitted[1].type = "timer-update"
    /\ emitted[1].payload = 1
    /\ Len(lobbies) = 1
    /\ lobbies[1].gameState.isActive
    /\ lobbies[1].gameState.timeRemaining = 1
    /\ Len(lobbies[1].players) = 2
    /\ lobbies[1].players[1].score = 100
    /\ lobbies[1].players[1].answeredQuestionIds = <<1>>
    /\ lobbies[1].players[2].isReady

\* C29: for every lobby code at most one interval is running, and
\* activeTimers holds the handle of exactly that interval: no entry when
\* none is running, its handle when one is.
C29_OneTimerPerLobby ==
    \A k \in Codes :
        /\ Cardinality(RunningTimers(k)) <= 1
        /\ IF RunningTimers(k) = {}
           THEN activeTimers[k] = NoTimer
           ELSE activeTimers[k] \in RunningTimers(k)

\* The positions of the events of the given type in what a step emitted.
EventsOfType(events, type) == { e \in 1..Len(events) : events[e].type = type }

\* C30: for every lobby, told apart by its code, the game-ended events
\* never outnumber the successful start-game actions.  Stated step by step: an interval is
\* created only by a successful start-game, one per start and for the code
\* of the started lobby; a game-ended is emitted only by the tick of a
\* running interval, once, to the interval's code, and that tick stops the
\* interval; and a stopped interval stays stopped and keeps its code.  So
\* every game-ended of a code belongs to a different interval of the code,
\* and every interval to a different successful start-game on it.
C30_GameEndedAtMostStarts ==
    [][/\ IF lastOp'.op = "start-game" /\ StartAllowed(lobbies, lastOp'.conn)
          THEN /\ Len(timers') = Len(timers) + 1
               /\ timers'[Len(timers')].code = LobbyFoundFor(lobbies, lastOp'.conn).code
          ELSE Len(timers') = Len(timers)
       /\ \A t \in 1..Len(timers) :
            /\ timers'[t].code = timers[t].code
            /\ ~timers[t].live => ~timers'[t].live
       /\ EventsOfType(emitted', "game-ended") # {}
            => /\ lastOp'.op = "tick"
               /\ Cardinality(EventsOfType(emitted', "game-ended")) = 1
               /\ timers[lastOp'.timer].live
               /\ ~timers'[lastOp'.timer].live
               /\ \A e \in EventsOfType(emitted', "game-ended") :
                    emitted'[e].to = timers[lastOp'.timer].code]_vars

\* C30, the case reached: the host started the game twice and both
\* intervals have expired: the second expiry found the game already over
\* (it counted down to -1) and emitted the second game-ended of the code.
C30_Witness ==
    /\ lastOp.op = "tick"
    /\ EventsOfType(emitted, "game-ended") # {}
    /\ emitted[1].type = "timer-update"
    /\ emitted[1].payload = -1
    /\ Len(timers) = 2
    /\ \A t \in 1..2 : ~timers[t].live /\ timers[t].code = emitted[1].to

\* A start-game has run on the lobby and no return-to-lobby since: the lobby
\* holds the batch of that start-game (create-lobby and return-to-lobby
\* store no questions, start-game stores at least one).  Where a behaviour
\* has one interval, a tick cannot follow a return-to-lobby of the round, so
\* the lobby a tick finds has been started since it was created exactly
\* when it holds a batch.
HoldsBatch(lobby) == lobby.gameState.questions # <<>>

\* C31: a lobby's gameState.isEnded becomes true, and timer-update or
\* game-ended is emitted to its room, only if a start-game succeeded on the
\* lobby since it was created: only a tick sets isEnded or emits these
\* events, and the lobby a tick finds under its code has been started, also
\* when create-lobby has stored a new lobby under the code of a lobby whose
\* interval is running.
C31_EndedOnlyIfStarted ==
    [][/\ \A k \in Codes :
            (/\ HasLobby(lobbies', k)
             /\ GetLobby(lobbies', k).gameState.isEnded
             /\ ~(HasLobby(lobbies, k) /\ GetLobby(lobbies, k).gameState.isEnded))
            => (lastOp'.op = "tick" /\ timers[lastOp'.timer].code = k)
       /\ (EventsOfType(emitted', "timer-update") \cup EventsOfType(emitted', "game-ended")) # {}
            => lastOp'.op = "tick"
       /\ (lastOp'.op = "tick" /\ HasLobby(lobbies, timers[lastOp'.timer].code))
            => HoldsBatch(GetLobby(lobbies, timers[lastOp'.timer].code))]_vars

\* C32: under weak fairness of the ticks of every running interval, a lobby
\* whose game is active is eventually either ended (gameState.isActive false
\* and gameState.isEnded true) or absent from the store, whatever the
\* clients emit in between, start-game included.
C32_ActiveGameEventuallyEnds ==
    \A k \in OneCode :
        (HasLobby(lobbies, k) /\ GetLobby(lobbies, k).gameState.isActive)
          ~> (\/ ~HasLobby(lobbies, k)
              \/ /\ ~GetLobby(lobbies, k).gameState.isActive
                 /\ GetLobby(lobbies, k).gameState.isEnded)

\* The ids of the entries of the players array, in order.
PlayerIds(lobby) == [j \in 1..Len(lobby.players) |-> lobby.players[j].id]

\* C33: no lobby's players list holds two entries with the same connection
\* id, also after a connection emits join-lobby for a lobby it is already in.
C33_NoDuplicatePlayerIds ==
    \A i \in 1..Len(lobbies) : NoDuplicates(PlayerIds(lobbies[i]))

\* C34: with every duration at least 1 (the durations of the scope are), the
\* stored gameState.timeRemaining of every lobby is at least 0 in every
\* reachable state and every timer-update event carries a value of at least
\* 0, whatever the interleaving of ticks with start-game and return-to-lobby.
C34_TimeRemainingNeverNegative ==
    /\ \A i \in 1..Len(lobbies) : lobbies[i].gameState.timeRemaining >= 0
    /\ \A e \in EventsOfType(emitted, "timer-update") : emitted[e].payload >= 0

\* Every entry of a players array is a clean slate: score 0, comboCount 0
\* and no answered question.
CleanSlate(players) ==
    \A j \in 1..Len(players) :
        /\ players[j].score = 0
        /\ players[j].comboCount = 0
        /\ players[j].answeredQuestionIds = <<>>

\* C35: after every successful start-game every player of the started lobby
\* has score 0, comboCount 0 and an empty answeredQuestionIds, also when the
\* game is started after a game ended without a return-to-lobby.
C35_StartGameCleanSlate ==
    [][(lastOp'.op = "start-game" /\ StartAllowed(lobbies, lastOp'.conn))
       => CleanSlate(LobbyFoundFor(lobbies', lastOp'.conn).players)]_vars

\* C7: each cancellation stops the interval it is aimed at, and a stopped
\* interval stays stopped, whatever handlers run in between.  A leave or
\* disconnect that deletes the emptied lobby stops the interval registered
\* for its code; a tick that ends the game, or that finds no lobby, stops the
\* interval that fired; a return-to-lobby that passes its checks stops the
\* interval registered for the code, if there is one.  No step (start-game,
\* create-lobby, leave, disconnect and return-to-lobby included) makes a
\* stopped interval run again, and no step is a tick of a stopped interval,
\* so it changes no stored lobby and emits no timer-update or game-ended.
C7_NoTickAfterCancel ==
    [][/\ lastOp'.op \in {"leave-lobby", "disconnect"}
          => LET k == playerLobbyMap[lastOp'.conn] IN
             (/\ k # NoCode
              /\ HasLobby(lobbies, k)
              /\ ~HasLobby(lobbies', k)
              /\ activeTimers[k] # NoTimer)
             => ~timers'[activeTimers[k]].live
       /\ (/\ lastOp'.op = "tick"
           /\ \/ ~HasLobby(lobbies, timers[lastOp'.timer].code)
              \/ EventsOfType(emitted', "game-ended") # {})
          => ~timers'[lastOp'.timer].live
       /\ (/\ lastOp'.op = "return-to-lobby"
           /\ ReturnAllowed(lobbies, lastOp'.conn)
           /\ activeTimers[LobbyFoundFor(lobbies, lastOp'.conn).code] # NoTimer)
          => ~timers'[activeTimers[LobbyFoundFor(lobbies, lastOp'.conn).code]].live
       /\ \A t \in 1..Len(timers) :
            ~timers[t].live
            => /\ ~timers'[t].live
               /\ ~(lastOp'.op = "tick" /\ lastOp'.timer = t)]_vars

\* C7, the case reached: the first interval of a lobby ended its game and
\* stopped itself; the host started the game again and the step just taken
\* is the tick of the second interval that counted the new round down to 0,
\* while the first interval is still stopped.
C7_Witness ==
    /\ lastOp.op = "tick"
    /\ lastOp.timer = 2
    /\ ~timers[1].live
    /\ timers[1].code = timers[2].code
    /\ HasLobby(lobbies, timers[2].code)
    /\ EventsOfType(emitted, "timer-update") # {}
    /\ emitted[1].payload = 0

============================================================================
